---- MODULE Spec2Model ----
(***************************************************************************)
(* Model of FilePlacementAgent (src/dummy.py): the heuristic pre-filter    *)
(* _simple_heuristic, the adjudication client _ask_llm, the scan loop run, *)
(* and the life cycle of the optional temporary clone (__init__, __del__). *)
(*                                                                         *)
(* Strings are sequences of one-character strings, so that lower-casing,   *)
(* substring search, stripping and slicing are computed rather than        *)
(* assumed.  A path is the sequence of its segments (pathlib's parts).     *)
(***************************************************************************)
EXTENDS Integers, Sequences, FiniteSets, TLC

\* ---------------------------------------------------------------- bounds
MaxWords == 2      \* words per file content in the classifier inputs
MaxText  == 3      \* characters of a short reply body
MaxLen   == 3      \* records returned by the traversal

\* ------------------------------------------------------- Python helpers
None == "<None>"

Max(a, b) == IF a >= b THEN a ELSE b
Min(a, b) == IF a <= b THEN a ELSE b

\* s[:n] for a Python sequence s and an integer n (negative n counts from the end)
PySlicePrefix(s, n) ==
    IF n >= 0 THEN SubSeq(s, 1, Min(n, Len(s)))
              ELSE SubSeq(s, 1, Max(0, Len(s) + n))

RECURSIVE SeqsUpTo(_, _)
SeqsUpTo(S, n) ==
    IF n = 0 THEN {<<>>}
    ELSE LET shorter == SeqsUpTo(S, n - 1)
         IN  shorter \cup {Append(s, x) : s \in {t \in shorter : Len(t) = n - 1}, x \in S}

\* str.lower() on one character, for the letters the inputs use
LowerChar(c) ==
    CASE c = "R" -> "r"
      [] c = "C" -> "c"
      [] c = "S" -> "s"
      [] c = "M" -> "m"
      [] c = "U" -> "u"
      [] c = "J" -> "j"
      [] OTHER   -> c

Lower(s) == [i \in 1..Len(s) |-> LowerChar(s[i])]

\* Python's `kw in s` for strings
Contains(s, kw) ==
    \E i \in 1..(Len(s) - Len(kw) + 1) : SubSeq(s, i, i + Len(kw) - 1) = kw

KwReact     == <<"r","e","a","c","t">>
KwJsx       == <<"j","s","x">>
KwComponent == <<"c","o","m","p","o","n","e","n","t">>
KwSchema    == <<"s","c","h","e","m","a">>
KwModel     == <<"m","o","d","e","l">>
KwHelper    == <<"h","e","l","p","e","r">>
KwUtil      == <<"u","t","i","l">>

\* ------------------------------------------------- _simple_heuristic
Parent(file_path) == IF Len(file_path) > 1 THEN file_path[1] ELSE ""

\* the checks in another order: the models check before the components check
SimpleHeuristicModelsFirst(file_path, content) ==
    LET lower  == Lower(content)
        parent == Parent(file_path)
    IN  IF Contains(lower, KwSchema) \/ (Contains(lower, KwModel) /\ parent # "models")
        THEN "models/"
        ELSE IF (Contains(lower, KwReact) \/ Contains(lower, KwJsx) \/ Contains(lower, KwComponent))
                /\ parent # "components"
        THEN "components/"
        ELSE IF (Contains(lower, KwHelper) \/ Contains(lower, KwUtil)) /\ parent # "utils"
        THEN "utils/"
        ELSE None

SimpleHeuristic(file_path, content) ==
    LET lower  == Lower(content)
        parent == Parent(file_path)
    IN  IF (Contains(lower, KwReact) \/ Contains(lower, KwJsx) \/ Contains(lower, KwComponent))
           /\ parent # "components"
        THEN "components/"
        ELSE IF Contains(lower, KwSchema) \/ (Contains(lower, KwModel) /\ parent # "models")
        THEN "models/"
        ELSE IF (Contains(lower, KwHelper) \/ Contains(lower, KwUtil)) /\ parent # "utils"
        THEN "utils/"
        ELSE None

\* ------------------------------------------- classifier inputs
Words == { <<"R","e","a","c","t">>, <<"J","S","X">>, <<"C","o","m","p","o","n","e","n","t">>,
           <<"S","c","h","e","m","a">>, <<"m","o","d","e","l">>, <<"h","e","l","p","e","r">>,
           <<"U","t","i","l">>, <<"x">> }

RECURSIVE Concat(_)
Concat(ws) == IF ws = <<>> THEN <<>> ELSE Head(ws) \o Concat(Tail(ws))

ClassifyContents == { Concat(ws) : ws \in SeqsUpTo(Words, MaxWords) }

ClassifyPaths == { <<"a.py">>, <<"components">>, <<"src", "foo.jsx">>,
                   <<"components", "a.jsx">>, <<"Components", "a.jsx">>,
                   <<"models", "m.py">>,
                   <<"utils", "u.py">>, <<"src", "models", "m.py">> }


\* ------------------------------------------------ Python / JSON values
\* A Python value is a record [t |-> type tag, v |-> payload]; a str's payload
\* is its sequence of characters (a path's: its sequence of segments).
JTrue   == [t |-> "true",  v |-> <<>>]
JFalse  == [t |-> "false", v |-> <<>>]
JNull   == [t |-> "null",  v |-> <<>>]
JStr(s) == [t |-> "str",   v |-> s]
JNum(n) == [t |-> "num",   v |-> <<n>>]
JList(xs) == [t |-> "list", v |-> xs]
JDict(d)  == [t |-> "dict", v |-> d]

\* Python truthiness, as `if r["is_misplaced"]` evaluates it
Truthy(x) ==
    CASE x.t = "true"  -> TRUE
      [] x.t = "false" -> FALSE
      [] x.t = "null"  -> FALSE
      [] x.t = "num"   -> x.v[1] # 0
      [] x.t = "dict"  -> DOMAIN x.v # {}
      [] OTHER         -> x.v # <<>>

IsWs(c) == c = " "

\* str.strip()
Strip(s) ==
    IF \A i \in 1..Len(s) : IsWs(s[i]) THEN <<>>
    ELSE LET first == CHOOSE i \in 1..Len(s) : ~IsWs(s[i]) /\ \A j \in 1..(i - 1) : IsWs(s[j])
             last  == CHOOSE i \in 1..Len(s) : ~IsWs(s[i]) /\ \A j \in (i + 1)..Len(s) : IsWs(s[j])
         IN  SubSeq(s, first, last)

RECURSIVE DigitsValue(_)
DigitsValue(s) == IF s = <<>> THEN 0 ELSE DigitsValue(SubSeq(s, 1, Len(s) - 1)) * 10 + 7

\* The body of a completion (message.content):
\*   [kind |-> "none"]   no text at all (Python None)
\*   [kind |-> "chars"]  the text itself, over the characters " ", "x", "7"
\*   [kind |-> "doc"]    the serialisation of the JSON value `value`
NoContent     == [kind |-> "none",  text |-> <<>>, value |-> JNull]
Chars(s)      == [kind |-> "chars", text |-> s,    value |-> JNull]
Doc(x)        == [kind |-> "doc",   text |-> <<>>, value |-> x]

\* json.loads(content): the parsed value, or an exception
JsonLoads(content) ==
    CASE content.kind = "none" -> [ok |-> FALSE, value |-> JNull]        \* TypeError
      [] content.kind = "doc"  -> [ok |-> TRUE,  value |-> content.value]
      [] OTHER ->
            LET body == Strip(content.text)
            IN  IF body # <<>> /\ \A i \in 1..Len(body) : body[i] = "7"
                THEN [ok |-> TRUE,  value |-> JNum(DigitsValue(body))]
                ELSE [ok |-> FALSE, value |-> JNull]                     \* JSONDecodeError

ReasoningLimit == 1000

SetItem(d, k, x) == [key \in (DOMAIN d) \cup {k} |-> IF key = k THEN x ELSE d[key]]

Returned(j)  == [status |-> "return", value |-> j,     exc |-> ""]
Raised(e)    == [status |-> "raise",  value |-> JNull, exc |-> e]

\* the except branch without the [:1000] slice
FallbackVerdictNoLimit(content) ==
    [is_misplaced   |-> JFalse,
     suggested_path |-> JNull,
     reasoning      |-> JStr(Strip(content.text))]

\* the except branch of _ask_llm
FallbackVerdict(content) ==
    [is_misplaced   |-> JFalse,
     suggested_path |-> JNull,
     reasoning      |-> JStr(PySlicePrefix(Strip(content.text), ReasoningLimit))]

\* j.setdefault("file_path", file_path): a path in the reply is kept
SetFilePathKeepExisting(j, file_path) ==
    IF "file_path" \in DOMAIN j THEN j ELSE SetItem(j, "file_path", JStr(file_path))

\* j["file_path"] = file_path
SetFilePath(j, file_path) == SetItem(j, "file_path", JStr(file_path))

\* _ask_llm(file_path, ...) for the outcome of client.chat.completions.create:
\* [err |-> TRUE] when the call raises, else [err |-> FALSE, content |-> body]
AskLLM(file_path, outcome) ==
    IF outcome.err THEN Raised("ServiceError")
    ELSE LET content == outcome.content
             parsed  == JsonLoads(content)
         IN  IF parsed.ok
             THEN IF parsed.value.t = "dict"
                  THEN Returned(JDict(SetFilePath(parsed.value.v, file_path)))
                  ELSE Raised("TypeError")
             ELSE IF content.kind = "none"
                  THEN Raised("AttributeError")
                  ELSE Returned(JDict(SetFilePath(FallbackVerdict(content), file_path)))

\* ------------------------------------------------ adjudication inputs
ServiceError   == [err |-> TRUE,  content |-> NoContent]
Completion(c)  == [err |-> FALSE, content |-> c]

Absent == [t |-> "absent", v |-> <<>>]

MkDict(im, sp, rs, fp) ==
    LET all  == [is_misplaced |-> im, suggested_path |-> sp, reasoning |-> rs, file_path |-> fp]
        keys == {k \in DOMAIN all : all[k] # Absent}
    IN  JDict([k \in keys |-> all[k]])

PathA == <<"a.py">>
PathB == <<"models", "m.py">>
PathOther == <<"routes", "z.py">>

ReplyObjects ==
    { MkDict(im, sp, rs, fp) :
        im \in {Absent, JTrue, JFalse, JStr(<<"n", "o">>)},
        sp \in {Absent, JNull, JStr(<<"utils", "a.py">>)},
        rs \in {Absent, JStr(<<"o", "k">>)},
        fp \in {Absent, JStr(PathOther)} }

ReplyNonObjects == { JList(<<>>), JNull, JTrue, JStr(<<"o", "k">>) }

ShortTexts == SeqsUpTo({" ", "x", "7"}, MaxText)

Run(n) == [i \in 1..n |-> "x"]

LongTexts ==
    { lead \o Run(n) \o trail :
        lead \in {<<>>, <<" ">>}, trail \in {<<>>, <<" ">>},
        n \in (ReasoningLimit - 1)..(ReasoningLimit + 1) }

AdjudicateOutcomes ==
    {ServiceError, Completion(NoContent)}
        \cup {Completion(Doc(x)) : x \in ReplyObjects \cup ReplyNonObjects}
        \cup {Completion(Chars(s)) : s \in ShortTexts \cup LongTexts}

\* ------------------------------------------------------ scan inputs
\* a traversal record: path and content; content is str (text) or bytes
TextContent(s) == [bytes |-> FALSE, text |-> s]
BytesContent   == [bytes |-> TRUE,  text |-> <<>>]

Records ==
    { [path |-> PathA, content |-> TextContent(<<"J", "S", "X">>)],
      [path |-> PathB, content |-> TextContent(<<"S", "c", "h", "e", "m", "a">>)],
      [path |-> PathB, content |-> BytesContent] }

TraversalResults == SeqsUpTo(Records, MaxLen)

VerdictTrueOtherPath ==
    MkDict(JTrue, JStr(<<"utils", "a.py">>), JStr(<<"o", "k">>), JStr(PathOther))
VerdictFalse   == MkDict(JFalse, JNull, JStr(<<"o", "k">>), Absent)
VerdictStrFlag == MkDict(JStr(<<"n", "o">>), JNull, JStr(<<"o", "k">>), Absent)
VerdictNoFlag  == MkDict(Absent, JNull, JStr(<<"o", "k">>), Absent)

ScanOutcomes ==
    { ServiceError, Completion(NoContent),
      Completion(Doc(VerdictTrueOtherPath)), Completion(Doc(VerdictFalse)),
      Completion(Doc(VerdictStrFlag)), Completion(Doc(VerdictNoFlag)),
      Completion(Doc(JList(<<>>))), Completion(Chars(<<" ", "x">>)) }

LocalPath == <<"app", "work", "my-repo">>
TempDir   == <<"tmp", "clone">>

VARIABLES c_pc, c_path, c_content, c_hint,
          a_pc, a_path, a_outcome, a_result,
          pc, repo_url, repo_path, openai_api_key, openai_installed,
          temp_git, repo_root, finalized, cleanup_calls,
          data, max_files, files, idx, suspected, results, calls, report, exc

cvars == <<c_pc, c_path, c_content, c_hint>>
avars == <<a_pc, a_path, a_outcome, a_result>>
ctor_args == <<repo_url, repo_path, openai_api_key, openai_installed>>
run_args  == <<data, max_files>>
agent == <<temp_git, repo_root, finalized, cleanup_calls>>
frame == <<files, idx, suspected, results, calls, report>>
svars == <<pc, ctor_args, run_args, agent, frame, exc>>

vars == <<cvars, avars, svars>>

SIdle ==
    /\ pc = "idle" /\ repo_url = FALSE /\ repo_path = FALSE
    /\ openai_api_key = FALSE /\ openai_installed = FALSE
    /\ temp_git = "unset" /\ repo_root = <<>> /\ finalized = FALSE /\ cleanup_calls = 0
    /\ data = <<>> /\ max_files = 0 /\ files = <<>> /\ idx = 0 /\ suspected = None
    /\ results = <<>> /\ calls = 0 /\ report = <<>> /\ exc = ""

CIdle == c_pc = "idle" /\ c_path = <<>> /\ c_content = <<>> /\ c_hint = None
AIdle == a_pc = "idle" /\ a_path = <<>> /\ a_outcome = ServiceError /\ a_result = Raised("")

AdjudicateInit ==
    /\ CIdle
    /\ SIdle
    /\ a_pc = "call"
    /\ a_path \in {PathA, PathB}
    /\ a_outcome \in AdjudicateOutcomes
    /\ a_result = Raised("")

Adjudicate ==
    /\ a_pc = "call"
    /\ a_result' = AskLLM(a_path, a_outcome)
    /\ a_pc' = "returned"
    /\ UNCHANGED <<a_path, a_outcome, cvars, svars>>

SpecAdjudicate == AdjudicateInit /\ [][Adjudicate]_vars

\* ------------------------------------------------------------ the scan
\* the bytes check left out
IsBytesNever(content) == FALSE

\* isinstance(content, bytes)
IsBytes(content) == content.bytes

\* Path(self.repo_root).name
PathName(p) == IF p = <<>> THEN "" ELSE p[Len(p)]

\* the report dict built at the end of run; r["is_misplaced"] raises KeyError
\* when a verdict lacks the key
MakeReport(root, rs) ==
    [repository_root |-> PathName(root),
     files_checked   |-> Len(rs),
     misplaced_count |-> Cardinality({i \in 1..Len(rs) : Truthy(rs[i].v.is_misplaced)}),
     details         |-> rs]

Init ==
    /\ CIdle
    /\ AIdle
    /\ pc = "new"
    /\ repo_url \in BOOLEAN
    /\ repo_path \in BOOLEAN
    /\ openai_api_key \in BOOLEAN
    /\ openai_installed \in BOOLEAN
    /\ temp_git = "unset" /\ repo_root = <<>> /\ finalized = FALSE /\ cleanup_calls = 0
    /\ data \in TraversalResults
    /\ max_files \in -1..MaxLen
    /\ files = <<>> /\ idx = 0 /\ suspected = None
    /\ results = <<>> /\ calls = 0 /\ report = <<>> /\ exc = ""

\* FilePlacementAgent.__init__
Construct ==
    /\ pc = "new"
    /\ IF ~repo_url /\ ~repo_path
       THEN /\ pc' = "ctor_failed" /\ exc' = "ValueError"
            /\ UNCHANGED <<temp_git, repo_root>>
       ELSE /\ temp_git' = IF repo_url THEN "clone" ELSE None
            /\ repo_root' = IF repo_url THEN TempDir ELSE LocalPath
            /\ IF ~openai_api_key
               THEN pc' = "ctor_failed" /\ exc' = "EnvironmentError"
               ELSE IF ~openai_installed
               THEN pc' = "ctor_failed" /\ exc' = "RuntimeError"
               ELSE pc' = "ready" /\ exc' = ""
    /\ UNCHANGED <<finalized, cleanup_calls, ctor_args, run_args, frame, cvars, avars>>

\* run: traverse and truncate, before the loop
RunStart ==
    /\ pc = "ready" /\ ~finalized
    /\ files' = PySlicePrefix(data, max_files)
    /\ results' = <<>>
    /\ idx' = 1
    /\ pc' = "loop"
    /\ UNCHANGED <<suspected, calls, report, exc, ctor_args, run_args, agent, cvars, avars>>

\* run: one iteration of the loop on a bytes record
SkipBinary ==
    /\ pc = "loop" /\ idx <= Len(files)
    /\ IsBytes(files[idx].content)
    /\ idx' = idx + 1
    /\ UNCHANGED <<pc, files, suspected, results, calls, report, exc,
                   ctor_args, run_args, agent, cvars, avars>>

\* the loop with the call wrapped in try/except: the error is noted and the
\* file skipped
AdjudicateRecordSkipOnError ==
    /\ pc = "loop" /\ idx <= Len(files)
    /\ ~IsBytes(files[idx].content)
    /\ \E outcome \in ScanOutcomes :
        LET record   == files[idx]
            analysis == AskLLM(record.path, outcome)
        IN  /\ suspected' = SimpleHeuristic(record.path, record.content.text)
            /\ calls' = calls + 1
            /\ idx' = idx + 1
            /\ IF analysis.status = "raise"
               THEN exc' = analysis.exc /\ UNCHANGED <<pc, results>>
               ELSE results' = Append(results, analysis.value) /\ UNCHANGED <<pc, exc>>
    /\ UNCHANGED <<files, report, ctor_args, run_args, agent, cvars, avars>>

\* run: one iteration of the loop on a text record
AdjudicateRecord ==
    /\ pc = "loop" /\ idx <= Len(files)
    /\ ~IsBytes(files[idx].content)
    /\ \E outcome \in ScanOutcomes :
        LET record   == files[idx]
            analysis == AskLLM(record.path, outcome)
        IN  /\ suspected' = SimpleHeuristic(record.path, record.content.text)
            /\ calls' = calls + 1
            /\ IF analysis.status = "raise"
               THEN /\ pc' = "run_failed" /\ exc' = analysis.exc
                    /\ UNCHANGED <<idx, results>>
               ELSE /\ results' = Append(results, analysis.value)
                    /\ idx' = idx + 1
                    /\ UNCHANGED <<pc, exc>>
    /\ UNCHANGED <<files, report, ctor_args, run_args, agent, cvars, avars>>

\* run: after the loop, build and return the report
Finish ==
    /\ pc = "loop" /\ idx > Len(files)
    /\ IF \E i \in 1..Len(results) : "is_misplaced" \notin DOMAIN results[i].v
       THEN pc' = "run_failed" /\ exc' = "KeyError" /\ UNCHANGED report
       ELSE pc' = "done" /\ report' = <<MakeReport(repo_root, results)>> /\ UNCHANGED exc
    /\ UNCHANGED <<files, idx, suspected, results, calls, ctor_args, run_args, agent, cvars, avars>>

\* FilePlacementAgent.__del__, run by the interpreter if and when it collects
\* the object: not while run is executing, at most once, possibly never
Finalize ==
    /\ pc \in {"ctor_failed", "ready", "done", "run_failed"}
    /\ ~finalized
    /\ finalized' = TRUE
    /\ cleanup_calls' = IF temp_git = "clone" THEN cleanup_calls + 1 ELSE cleanup_calls
    /\ UNCHANGED <<pc, temp_git, repo_root, exc, ctor_args, run_args, frame, cvars, avars>>

Next == Construct \/ RunStart \/ SkipBinary \/ AdjudicateRecord \/ Finish \/ Finalize

Spec == Init /\ [][Next]_vars

ClassifyInit ==
    /\ AIdle
    /\ SIdle
    /\ c_pc = "call"
    /\ c_path \in ClassifyPaths
    /\ c_content \in ClassifyContents
    /\ c_hint = None

Classify ==
    /\ c_pc = "call"
    /\ c_hint' = SimpleHeuristic(c_path, c_content)
    /\ c_pc' = "returned"
    /\ UNCHANGED <<c_path, c_content, avars, svars>>

SpecClassify == ClassifyInit /\ [][Classify]_vars

\* ------------------------------------------------ adjudication claims
AVerdict == a_result.value.v
AText    == a_outcome.content.text

AReturnedVerdict == a_pc = "returned" /\ a_result.status = "return"

\* the reply came back without a service error and json.loads raised on it
AUnparsable == ~a_outcome.err /\ ~JsonLoads(a_outcome.content).ok

\* C2: every verdict _ask_llm returns carries the input path as file_path,
\* on the parsed branch and on the fallback branch, also when the reply has
\* a file_path of its own.
C2_FilePathIsInputPath ==
    AReturnedVerdict => AVerdict.file_path = JStr(a_path)

C2_Witness ==
    /\ AReturnedVerdict
    /\ a_outcome.content.kind = "doc"
    /\ a_outcome.content.value.t = "dict"
    /\ "file_path" \in DOMAIN a_outcome.content.value.v
    /\ a_outcome.content.value.v.file_path = JStr(PathOther)
    /\ AVerdict.file_path = JStr(a_path)

AllWs(s, from, to) == \A k \in from..to : s[k] = " "

\* r is the first ReasoningLimit characters of raw without its leading and
\* trailing whitespace
IsStrippedPrefix(r, raw) ==
    \E i \in 0..Len(raw), j \in 0..Len(raw) :
        /\ i + j <= Len(raw)
        /\ AllWs(raw, 1, i)
        /\ AllWs(raw, Len(raw) - j + 1, Len(raw))
        /\ IF i + j = Len(raw) THEN i = Len(raw)
           ELSE raw[i + 1] # " " /\ raw[Len(raw) - j] # " "
        /\ r = SubSeq(raw, i + 1, i + Min(ReasoningLimit, Len(raw) - i - j))

Details == report[1].details

DetailPaths == [i \in 1..Len(Details) |-> Details[i].v.file_path.v]

TextPaths(fs) ==
    LET keep == SelectSeq(fs, LAMBDA r : ~r.content.bytes)
    IN  [i \in 1..Len(keep) |-> keep[i].path]

Distinct(s) == \A i, j \in 1..Len(s) : i # j => s[i] # s[j]

IsPrefix(s, t) == Len(s) <= Len(t) /\ s = SubSeq(t, 1, Len(s))

\* C1: in a returned report files_checked is the length of details and
\* misplaced_count is the number of details whose is_misplaced is true.
C1_CountsMatchDetails ==
    pc = "done" =>
        /\ report[1].files_checked = Len(Details)
        /\ report[1].misplaced_count =
               Cardinality({i \in 1..Len(Details) : Details[i].v.is_misplaced = JTrue})

\* C3: a reply that came back without a service error never makes the scan
\* fail, so a failed scan always has a service error as its cause.
C3_MalformedReplyNeverFails ==
    pc = "run_failed" => exc = "ServiceError"

\* C5: details has one verdict per text record of the truncated list, in the
\* list's order, and none for a bytes record; distinct input paths give
\* distinct file_path values, and bytes records are not counted.
C5_OneVerdictPerTextRecord ==
    pc = "done" =>
        /\ IsPrefix(files, data)
        /\ DetailPaths = TextPaths(files)
        /\ report[1].files_checked = Len(TextPaths(files))
        /\ Distinct([i \in 1..Len(data) |-> data[i].path]) => Distinct(DetailPaths)

C5_Witness ==
    /\ pc = "done"
    /\ Len(files) = 3
    /\ files[2].content.bytes
    /\ Len(Details) = 2
    /\ DetailPaths = <<PathA, PathB>>

\* C6: max_files caps the work: at most max(0, max_files) adjudication calls
\* and files_checked <= max(0, max_files), also for zero and negative values.
C6_MaxFilesHardCap ==
    /\ calls <= Max(0, max_files)
    /\ pc = "done" => report[1].files_checked <= Max(0, max_files)

\* C7: when the inference call fails on a record the scan ends in failure
\* with no report, and no call is made for a later record.
C7_ServiceFailureAborts ==
    /\ [](exc = "ServiceError" =>
            /\ pc = "run_failed"
            /\ report = <<>>
            /\ idx <= Len(files)
            /\ calls = Len(TextPaths(SubSeq(files, 1, idx))))
    /\ [][exc = "ServiceError" => (calls' = calls /\ report' = <<>>)]_vars

C7_Witness ==
    /\ pc = "run_failed" /\ exc = "ServiceError"
    /\ Len(results) >= 1
    /\ idx < Len(files)
    /\ ~files[idx + 1].content.bytes
    /\ finalized

\* C8: once the agent is done (scan returned, scan aborted, or constructor
\* failed) cleanup has been called exactly once for a cloned root and never
\* for a local one.
C8_CleanupExactlyOnce ==
    pc \in {"done", "run_failed", "ctor_failed"} =>
        cleanup_calls = (IF temp_git = "clone" THEN 1 ELSE 0)

\* ------------------------------------------------------ classifier claims
HasComponentSignal(content) ==
    \/ Contains(Lower(content), KwReact)
    \/ Contains(Lower(content), KwJsx)
    \/ Contains(Lower(content), KwComponent)

HasOtherSignal(content) ==
    \/ Contains(Lower(content), KwSchema)
    \/ Contains(Lower(content), KwModel)
    \/ Contains(Lower(content), KwHelper)
    \/ Contains(Lower(content), KwUtil)

C10_NeverHintsOwnFolder ==
    c_pc = "returned" =>
        /\ ~(Parent(c_path) = "models" /\ c_hint = "models/")
        /\ ~(Parent(c_path) = "components" /\ c_hint = "components/")
        /\ ~(Parent(c_path) = "utils" /\ c_hint = "utils/")
====
